---- MODULE Spec2Model ----
(***************************************************************************)
(* Geometry and rendering-consistency engine of the form builder:          *)
(*   - TemplateBuilder.tsx : addField / removeField and the drag / resize  *)
(*     gestures that write the field-position map;                         *)
(*   - TemplateCanvas.tsx and the PreviewCanvas of FieldOverlay.tsx : the  *)
(*     "object-contain" display layout and the overlays rendered from it;  *)
(*   - positioning.ts and fontSizing.ts : the percent / pixel conversions  *)
(*     and the font size of a field, as pure functions.                    *)
(*                                                                         *)
(* JavaScript numbers are modelled as exact rationals [n, d] in lowest     *)
(* terms, extended with d = 0 for the non-finite values a division by zero *)
(* produces (1/0 = Infinity, -1/0 = -Infinity, 0/0 = NaN).  Where the      *)
(* rounding of IEEE doubles decides a property (the percent / pixel round  *)
(* trip), numbers are binary64 values with correctly rounded operations.   *)
(***************************************************************************)
EXTENDS Integers, Sequences, FiniteSets, TLC

\* ------------------------------------------------------------------------
\* Bounds of the model
\* ------------------------------------------------------------------------
MaxFields == 2
MaxEvents == 4

\* calculateFontSize is applied to the heights 0, 1/2, 1, ..., MaxHeight
MaxHeight == 60

\* the values Date.now() returns in the runs explored
ClockValues == {1, 2}

\* ------------------------------------------------------------------------
\* JavaScript number arithmetic
\* ------------------------------------------------------------------------
Abs(i) == IF i < 0 THEN -i ELSE i

Sign(i) == IF i < 0 THEN -1 ELSE IF i > 0 THEN 1 ELSE 0

RECURSIVE GCD(_, _)
GCD(a, b) == IF b = 0 THEN a ELSE GCD(b, a % b)

\* the number n/d in lowest terms with a positive denominator
Norm(n, d) ==
  IF d = 0 THEN [n |-> Sign(n), d |-> 0]
  ELSE LET g == GCD(Abs(n), Abs(d))
       IN  [n |-> Sign(d) * (n \div g), d |-> Abs(d) \div g]

R(i) == [n |-> i, d |-> 1]

NaN == [n |-> 0, d |-> 0]

IsNaN(a) == a.d = 0 /\ a.n = 0

IsFinite(a) == a.d # 0

Mul(a, b) == Norm(a.n * b.n, a.d * b.d)

Inv(b) ==
  IF b.n = 0 THEN (IF b.d = 0 THEN NaN ELSE [n |-> 1, d |-> 0])
  ELSE IF b.d = 0 THEN R(0)
  ELSE [n |-> Sign(b.n) * b.d, d |-> Abs(b.n)]

Div(a, b) == Mul(a, Inv(b))

Add(a, b) ==
  IF IsNaN(a) \/ IsNaN(b) THEN NaN
  ELSE IF a.d = 0 /\ b.d = 0 THEN (IF a.n = b.n THEN a ELSE NaN)
  ELSE IF a.d = 0 THEN a
  ELSE IF b.d = 0 THEN b
  ELSE Norm(a.n * b.d + b.n * a.d, a.d * b.d)

Neg(a) == [n |-> -a.n, d |-> a.d]

Sub(a, b) == Add(a, Neg(b))

Lt(a, b) ==
  IF IsNaN(a) \/ IsNaN(b) THEN FALSE
  ELSE IF a.d = 0 /\ b.d = 0 THEN a.n < b.n
  ELSE a.n * b.d < b.n * a.d

Le(a, b) == Lt(a, b) \/ (~IsNaN(a) /\ a = b)

MathMax(a, b) ==
  IF IsNaN(a) \/ IsNaN(b) THEN NaN ELSE IF Lt(a, b) THEN b ELSE a

MathMin(a, b) ==
  IF IsNaN(a) \/ IsNaN(b) THEN NaN ELSE IF Lt(b, a) THEN b ELSE a

\* ------------------------------------------------------------------------
\* JavaScript number arithmetic with the rounding of IEEE 754 binary64
\* ------------------------------------------------------------------------
\* A non-negative number is [cls, m, e]: cls "zero", "inf", "nan", or "fin" with
\* the value m * 2^e, where the significand m is an integer of MantissaBits
\* binary digits held as a sequence of limbs of LimbBits digits, most
\* significant first.  An operation on a number and an integer below 2^LimbBits
\* (which is a number itself) returns the exact result rounded to the nearest
\* significand, ties to even.  Negative numbers, subnormals and overflow do not
\* occur for the operands used.
MantissaBits == 53

LimbBits == 13

\* digits appended to a dividend so that the quotient has a guard digit
GuardBits == 16

Base == 2^LimbBits

Zeros(k) == [i \in 1..k |-> 0]

Front(b) == SubSeq(b, 1, Len(b) - 1)

Last(b) == b[Len(b)]

\* number of binary digits of a natural number below 2^30
BitLen(n) == CHOOSE k \in 0..30 : n < 2^k /\ (k = 0 \/ n >= 2^(k - 1))

\* the limbs of a natural number (<<>> for 0)
RECURSIVE Limbs(_)
Limbs(n) == IF n = 0 THEN <<>> ELSE Append(Limbs(n \div Base), n % Base)

\* b without its leading zero limbs
RECURSIVE Strip(_)
Strip(b) == IF b = <<>> \/ b[1] # 0 THEN b ELSE Strip(Tail(b))

\* number of binary digits of b, which has no leading zero limb
LenBits(b) == IF b = <<>> THEN 0 ELSE LimbBits * (Len(b) - 1) + BitLen(b[1])

\* the limbs of b * k + carry
RECURSIVE MulCarry(_, _, _)
MulCarry(b, k, carry) ==
  IF b = <<>> THEN Limbs(carry)
  ELSE LET v == Last(b) * k + carry
       IN  Append(MulCarry(Front(b), k, v \div Base), v % Base)

\* long division of b by k > 0: quotient limbs (as many as b has) and remainder
RECURSIVE DivRem(_, _)
DivRem(b, k) ==
  IF b = <<>> THEN [q |-> <<>>, r |-> 0]
  ELSE LET p == DivRem(Front(b), k)
           v == p.r * Base + Last(b)
       IN  [q |-> Append(p.q, v \div k), r |-> v % k]

\* the limbs of b + 1
RECURSIVE Inc(_)
Inc(b) ==
  IF b = <<>> THEN <<1>>
  ELSE IF Last(b) < Base - 1 THEN Append(Front(b), Last(b) + 1)
  ELSE Append(Inc(Front(b)), 0)

\* x - y for limb sequences of one length: limbs and the final borrow
RECURSIVE SubBorrow(_, _)
SubBorrow(x, y) ==
  IF x = <<>> THEN [d |-> <<>>, borrow |-> 0]
  ELSE LET low == SubBorrow(Tail(x), Tail(y))
           v == x[1] - y[1] - low.borrow
       IN  [d |-> <<(v + Base) % Base>> \o low.d, borrow |-> IF v < 0 THEN 1 ELSE 0]

\* b * 2^s
ShiftLeft(b, s) ==
  Strip(MulCarry(b, 2^(s % LimbBits), 0)) \o Zeros(s \div LimbBits)

\* b \div 2^s, and whether digits other than 0 were shifted out
ShiftRight(b, s) ==
  LET drop == IF s \div LimbBits > Len(b) THEN Len(b) ELSE s \div LimbBits
      qr == DivRem(SubSeq(b, 1, Len(b) - drop), 2^(s % LimbBits))
  IN  [q |-> Strip(qr.q),
       sticky |-> qr.r # 0 \/ \E i \in (Len(b) - drop + 1)..Len(b) : b[i] # 0]

F64Zero == [cls |-> "zero", m |-> <<>>, e |-> 0]

F64Inf == [cls |-> "inf", m |-> <<>>, e |-> 0]

F64NaN == [cls |-> "nan", m |-> <<>>, e |-> 0]

\* the number nearest to (n + f) * 2^e, where n # <<>> has no leading zero limb
\* and 0 <= f < 1 with f > 0 iff sticky (sticky only with more than
\* MantissaBits digits in n)
F64Round(n, e, sticky) ==
  LET shift == LenBits(n) - MantissaBits
  IN  IF shift <= 0
        THEN [cls |-> "fin", m |-> ShiftLeft(n, -shift), e |-> e + shift]
        ELSE LET g == ShiftRight(n, shift - 1)
                 h == DivRem(g.q, 2)
                 keep == Strip(h.q)
                 up == h.r = 1 /\ (sticky \/ g.sticky \/ Last(keep) % 2 = 1)
                 m0 == IF up THEN Inc(keep) ELSE keep
             IN  IF LenBits(m0) > MantissaBits
                   THEN [cls |-> "fin", m |-> Strip(DivRem(m0, 2).q), e |-> e + shift + 1]
                   ELSE [cls |-> "fin", m |-> m0, e |-> e + shift]

\* the number an integer literal or an integer pixel size denotes
F64(i) == IF i = 0 THEN F64Zero ELSE F64Round(Limbs(i), 0, FALSE)

\* a * k
F64Mul(a, k) ==
  CASE a.cls = "nan" -> F64NaN
    [] a.cls = "inf" -> IF k = 0 THEN F64NaN ELSE F64Inf
    [] a.cls = "zero" -> F64Zero
    [] OTHER -> IF k = 0 THEN F64Zero
                ELSE F64Round(Strip(MulCarry(a.m, k, 0)), a.e, FALSE)

\* a / k
F64Div(a, k) ==
  CASE a.cls = "nan" -> F64NaN
    [] a.cls = "inf" -> F64Inf
    [] a.cls = "zero" -> IF k = 0 THEN F64NaN ELSE F64Zero
    [] OTHER -> IF k = 0 THEN F64Inf
                ELSE LET qr == DivRem(ShiftLeft(a.m, GuardBits), k)
                     IN  F64Round(Strip(qr.q), a.e - GuardBits, qr.r # 0)

\* |a - b| of two numbers that are zero or finite, as limbs of a multiple of 2^e
F64Distance(a, b) ==
  LET e == IF a.e < b.e THEN a.e ELSE b.e
      x0 == ShiftLeft(a.m, a.e - e)
      y0 == ShiftLeft(b.m, b.e - e)
      len == IF Len(x0) < Len(y0) THEN Len(y0) ELSE Len(x0)
      x == Zeros(len - Len(x0)) \o x0
      y == Zeros(len - Len(y0)) \o y0
      xy == SubBorrow(x, y)
  IN  [d |-> Strip(IF xy.borrow = 0 THEN xy.d ELSE SubBorrow(y, x).d), e |-> e]

\* ------------------------------------------------------------------------
\* TemplateBuilder: state
\* ------------------------------------------------------------------------
VARIABLES
  step,             \* wizard step of the builder (1 or 3)
  imageData,        \* <<>> for null, or <<[width, height]>> of the uploaded image
  fields,           \* sequence of field ids, in list order
  fieldPositions,   \* field id -> NormalizedRect
  selectedFieldId,  \* selected field id, or 0 for null
  isDraggingField,
  now,              \* Date.now()
  listeners,        \* gestures whose mousemove/mouseup listeners are on document
  writes,           \* the map each listener passed to setFieldPositions in the last mousemove
  lastPointer,      \* <<clientX, clientY>> of the last mousemove since the last mouseup
  nEvents,          \* number of mousedown and mousemove events so far
  pendingTemplate   \* <<template>> while the effect that loads the template prop
                    \* has not run yet, <<>> after it or without the prop

bvars == <<step, imageData, fields, fieldPositions, selectedFieldId,
           isDraggingField, now, listeners, writes, lastPointer, nEvents,
           pendingTemplate>>

VARIABLES
  selectedTemplate,   \* <<>> for null, or <<template>> (appStore)
  isPreviewMode,      \* appStore: PreviewCanvas instead of TemplateCanvas is mounted
  formData,           \* appStore: the ids of the fields that hold a non-blank value
  imageDimensions,    \* state of the mounted canvas
  displayDimensions,  \* state of the mounted canvas
  container,          \* offsetWidth / offsetHeight of the canvas element
  pendingLoad,        \* an Image whose onload has not fired yet
  resizeListener,     \* <<>>, or <<imageDimensions>> captured by the registered
                      \* updateDisplayDimensions window-resize listener
  lastLayout,         \* <<>>, or the locals of the last updateDisplayDimensions run
  canvasState         \* appStore: scale / positionX / positionY of the zoom wrapper

lvars == <<selectedTemplate, isPreviewMode, formData, imageDimensions,
           displayDimensions, container, pendingLoad, resizeListener, lastLayout,
           canvasState>>

\* calls of the exported utilities of positioning.ts and fontSizing.ts
VARIABLES
  percent,       \* percentToPixels: its FieldPosition argument (whole percentages)
  frame,         \* the imageWidth / imageHeight arguments of both conversions
  pixels,        \* <<>>, or <<the rect percentToPixels(percent, frame) returned>>
  percentBack,   \* <<>>, or <<the rect pixelsToPercent(pixels, frame) returned>>
  fieldHeight,   \* calculateFontSize: its argument
  fontSize       \* <<>>, or <<the value calculateFontSize(fieldHeight) returned>>

pvars == <<percent, frame, pixels, percentBack, fieldHeight, fontSize>>

vars == <<bvars, lvars, pvars>>

NoField == 0

Corners == {"nw", "ne", "sw", "se"}

\* bounding rectangles the canvas element can have at a pointer-down
CanvasRects == { [left |-> 10, top |-> 20, width |-> 200, height |-> 100] }

\* positions of the pointer, in client pixels
Pointers == { <<-30, 0>>, <<100, 55>>, <<200, 55>>, <<250, 130>> }

ImageSizes == { [width |-> 800, height |-> 400] }

Range(s) == { s[i] : i \in DOMAIN s }

Put(m, k, v) == [i \in DOMAIN m \cup {k} |-> IF i = k THEN v ELSE m[i]]

\* Remove leaving the entry of k in the map
Remove_KeepsEntry(m, k) == m

Remove(m, k) == [i \in DOMAIN m \ {k} |-> m[i]]

SelectSeq2(s, k) ==
  LET Keep(e) == e # k IN SelectSeq(s, Keep)

DefaultPosition == [x |-> R(25), y |-> R(25), width |-> R(50), height |-> R(10)]

\* ((clientX - rect.left) / rect.width) * 100
PointerPercent(client, origin, extent) ==
  Mul(Div(Sub(R(client), R(origin)), R(extent)), R(100))

\* DragRect clamping x and y against 100 instead of 100 - width, 100 - height
DragRect_ClampTo100(cur, x, y) ==
  [cur EXCEPT !.x = MathMax(R(0), MathMin(R(100), x)),
              !.y = MathMax(R(0), MathMin(R(100), y))]

\* DragRect without the lower clamp Math.max(0, ...)
DragRect_NoLowerClamp(cur, x, y) ==
  [cur EXCEPT !.x = MathMin(Sub(R(100), cur.width), x),
              !.y = MathMin(Sub(R(100), cur.height), y)]

\* the rect written by handleFieldDrag's handleMouseMove
DragRect(cur, x, y) ==
  [cur EXCEPT !.x = MathMax(R(0), MathMin(Sub(R(100), cur.width), x)),
              !.y = MathMax(R(0), MathMin(Sub(R(100), cur.height), y))]

\* variants of ResizeRect: upper = FALSE drops Math.min(100 - x, ...) and
\* Math.min(100 - y, ...), floor = FALSE drops Math.max(5, ...) and
\* Math.max(3, ...), moveX = FALSE leaves x out of the sw / nw update
ResizeVariant(cur, corner, xPercent, yPercent, upper, floor, moveX) ==
  LET rawW == IF upper THEN MathMin(Sub(R(100), cur.x), Sub(xPercent, cur.x))
              ELSE Sub(xPercent, cur.x)
      rawH == IF upper THEN MathMin(Sub(R(100), cur.y), Sub(yPercent, cur.y))
              ELSE Sub(yPercent, cur.y)
      seW  == IF floor THEN MathMax(R(5), rawW) ELSE rawW
      seH  == IF floor THEN MathMax(R(3), rawH) ELSE rawH
      newX == MathMax(R(0), MathMin(Sub(Add(cur.x, cur.width), R(5)), xPercent))
      newY == MathMax(R(0), MathMin(Sub(Add(cur.y, cur.height), R(3)), yPercent))
      nwW  == Sub(Add(cur.x, cur.width), newX)
      nwH  == Sub(Add(cur.y, cur.height), newY)
      outX == IF moveX THEN newX ELSE cur.x
  IN  CASE corner = "se" -> [cur EXCEPT !.width = seW, !.height = seH]
        [] corner = "sw" -> [cur EXCEPT !.x = outX, !.width = nwW, !.height = seH]
        [] corner = "ne" -> [cur EXCEPT !.y = newY, !.height = nwH, !.width = seW]
        [] corner = "nw" -> [cur EXCEPT !.x = outX, !.y = newY, !.width = nwW, !.height = nwH]
        [] OTHER -> cur

ResizeRect_NoUpperClamp(cur, corner, xPercent, yPercent) ==
  ResizeVariant(cur, corner, xPercent, yPercent, FALSE, TRUE, TRUE)

ResizeRect_NoMinimum(cur, corner, xPercent, yPercent) ==
  ResizeVariant(cur, corner, xPercent, yPercent, TRUE, FALSE, TRUE)

ResizeRect_KeepsX(cur, corner, xPercent, yPercent) ==
  ResizeVariant(cur, corner, xPercent, yPercent, TRUE, TRUE, FALSE)

\* ResizeRect whose ne and nw corners leave the top edge where it was
ResizeRect_FixedTop(cur, corner, xPercent, yPercent) ==
  LET seW  == MathMax(R(5), MathMin(Sub(R(100), cur.x), Sub(xPercent, cur.x)))
      seH  == MathMax(R(3), MathMin(Sub(R(100), cur.y), Sub(yPercent, cur.y)))
      newX == MathMax(R(0), MathMin(Sub(Add(cur.x, cur.width), R(5)), xPercent))
      nwW  == Sub(Add(cur.x, cur.width), newX)
  IN  CASE corner = "se" -> [cur EXCEPT !.width = seW, !.height = seH]
        [] corner = "sw" -> [cur EXCEPT !.x = newX, !.width = nwW, !.height = seH]
        [] corner = "ne" -> [cur EXCEPT !.width = seW]
        [] corner = "nw" -> [cur EXCEPT !.x = newX, !.width = nwW]
        [] OTHER -> cur

\* the rect written by handleFieldResize's handleMouseMove
ResizeRect(cur, corner, xPercent, yPercent) ==
  LET seW  == MathMax(R(5), MathMin(Sub(R(100), cur.x), Sub(xPercent, cur.x)))
      seH  == MathMax(R(3), MathMin(Sub(R(100), cur.y), Sub(yPercent, cur.y)))
      newX == MathMax(R(0), MathMin(Sub(Add(cur.x, cur.width), R(5)), xPercent))
      newY == MathMax(R(0), MathMin(Sub(Add(cur.y, cur.height), R(3)), yPercent))
      nwW  == Sub(Add(cur.x, cur.width), newX)
      nwH  == Sub(Add(cur.y, cur.height), newY)
  IN  CASE corner = "se" -> [cur EXCEPT !.width = seW, !.height = seH]
        [] corner = "sw" -> [cur EXCEPT !.x = newX, !.width = nwW, !.height = seH]
        [] corner = "ne" -> [cur EXCEPT !.y = newY, !.height = nwH, !.width = seW]
        [] corner = "nw" -> [cur EXCEPT !.x = newX, !.y = newY, !.width = nwW, !.height = nwH]
        [] OTHER -> cur

\* HandlerRect whose drag moves the live rect by the pointer's displacement
\* since the previous event of the gesture
HandlerRect_ByDelta(l, xPercent, yPercent) ==
  LET live == fieldPositions[l.fieldId]
      prevX == IF writes = <<>> THEN l.down[1]
               ELSE PointerPercent(lastPointer[1], l.rect.left, l.rect.width)
      prevY == IF writes = <<>> THEN l.down[2]
               ELSE PointerPercent(lastPointer[2], l.rect.top, l.rect.height)
  IN  IF l.kind = "drag"
        THEN DragRect(live, Add(live.x, Sub(xPercent, prevX)),
                            Add(live.y, Sub(yPercent, prevY)))
        ELSE ResizeRect(l.currentPosition, l.corner, xPercent, yPercent)

\* the rect one registered handleMouseMove computes for a pointer position
HandlerRect(l, xPercent, yPercent) ==
  IF l.kind = "drag"
    THEN DragRect(l.fieldPositions[l.fieldId], xPercent, yPercent)
    ELSE ResizeRect(l.currentPosition, l.corner, xPercent, yPercent)

\* the map one registered handleMouseMove passes to setFieldPositions
HandlerWrite(l, p) ==
  Put(l.fieldPositions, l.fieldId,
      HandlerRect(l, PointerPercent(p[1], l.rect.left, l.rect.width),
                     PointerPercent(p[2], l.rect.top, l.rect.height)))

\* ------------------------------------------------------------------------
\* TemplateBuilder: operations
\* ------------------------------------------------------------------------
BuilderInit ==
  /\ step = 1
  /\ imageData = <<>>
  /\ fields = <<>>
  /\ fieldPositions = [i \in {} |-> DefaultPosition]
  /\ selectedFieldId = NoField
  /\ isDraggingField = FALSE
  /\ now = 1
  /\ listeners = <<>>
  /\ writes = <<>>
  /\ lastPointer = <<0, 0>>
  /\ nEvents = 0
  /\ pendingTemplate = <<>>

\* ImageUpload's onImageUploaded callback (runs when the upload request returns)
ImageUploaded ==
  /\ pendingTemplate = <<>>
  /\ \E img \in ImageSizes : imageData' = <<img>>
  /\ step' = IF step < 3 THEN 3 ELSE step
  /\ UNCHANGED <<fields, fieldPositions, selectedFieldId, isDraggingField, now,
                 listeners, writes, lastPointer, nEvents>>
  /\ UNCHANGED <<pendingTemplate, lvars, pvars>>

\* Every event handler runs after the effects of the first render, so with the
\* template prop loaded (pendingTemplate = <<>>).
\* addField, removeField and SelectField run from click handlers.  A click is
\* delivered after its mouseup, and a mouseup on document runs every registered
\* handleMouseUp, so no gesture listener is registered when they run.
\* click on "+ Add Field"; t is the value Date.now() returns in this call
addField ==
  \E t \in { c \in ClockValues : c >= now } :
    /\ pendingTemplate = <<>>
    /\ step >= 3
    /\ listeners = <<>>
    /\ Len(fields) < MaxFields
    /\ now' = t
    /\ fields' = Append(fields, t)
    /\ fieldPositions' = Put(fieldPositions, t, DefaultPosition)
    /\ UNCHANGED <<step, imageData, selectedFieldId, isDraggingField,
                   listeners, writes, lastPointer, nEvents>>
    /\ UNCHANGED <<pendingTemplate, lvars, pvars>>

removeField ==
  \E fieldId \in Range(fields) :
    /\ pendingTemplate = <<>>
    /\ step >= 3
    /\ listeners = <<>>
    /\ fields' = SelectSeq2(fields, fieldId)
    /\ fieldPositions' = Remove(fieldPositions, fieldId)
    /\ selectedFieldId' = IF selectedFieldId = fieldId THEN NoField ELSE selectedFieldId
    /\ UNCHANGED <<step, imageData, isDraggingField, now, listeners, writes,
                   lastPointer, nEvents>>
    /\ UNCHANGED <<pendingTemplate, lvars, pvars>>

\* click on a field of the sidebar list
SelectField ==
  \E fieldId \in Range(fields) :
    /\ pendingTemplate = <<>>
    /\ step >= 3
    /\ listeners = <<>>
    /\ selectedFieldId # fieldId
    /\ selectedFieldId' = fieldId
    /\ UNCHANGED <<step, imageData, fields, fieldPositions, isDraggingField, now,
                   listeners, writes, lastPointer, nEvents>>
    /\ UNCHANGED <<pendingTemplate, lvars, pvars>>

\* the fields the canvas renders an overlay for
Rendered == { f \in Range(fields) : f \in DOMAIN fieldPositions }

Inside(pos, xp, yp) ==
  /\ Le(pos.x, xp) /\ Le(xp, Add(pos.x, pos.width))
  /\ Le(pos.y, yp) /\ Le(yp, Add(pos.y, pos.height))

\* mousedown on the body of a field overlay
handleFieldDrag ==
  \E fieldId \in Rendered, rect \in CanvasRects, p \in Pointers :
    LET xp == PointerPercent(p[1], rect.left, rect.width)
        yp == PointerPercent(p[2], rect.top, rect.height)
    IN  /\ pendingTemplate = <<>>
        /\ imageData # <<>>
        /\ nEvents < MaxEvents
        /\ nEvents' = nEvents + 1
        /\ Inside(fieldPositions[fieldId], xp, yp)
        /\ isDraggingField' = TRUE
        /\ selectedFieldId' = fieldId
        /\ listeners' = Append(listeners,
             [kind |-> "drag", fieldId |-> fieldId, corner |-> "none", rect |-> rect,
              fieldPositions |-> fieldPositions,
              currentPosition |-> fieldPositions[fieldId],
              down |-> <<xp, yp>>])
        /\ UNCHANGED <<step, imageData, fields, fieldPositions, now, writes,
                       lastPointer>>
        /\ UNCHANGED <<pendingTemplate, lvars, pvars>>

CornerOf(pos, corner) ==
  << IF corner \in {"nw", "sw"} THEN pos.x ELSE Add(pos.x, pos.width),
     IF corner \in {"nw", "ne"} THEN pos.y ELSE Add(pos.y, pos.height) >>

\* mousedown on one of the four resize handles of the selected field
handleFieldResize ==
  \E fieldId \in Rendered, rect \in CanvasRects, corner \in Corners :
    /\ pendingTemplate = <<>>
    /\ imageData # <<>>
    /\ selectedFieldId = fieldId
    /\ nEvents < MaxEvents
    /\ nEvents' = nEvents + 1
    /\ selectedFieldId' = fieldId
    /\ listeners' = Append(listeners,
         [kind |-> "resize", fieldId |-> fieldId, corner |-> corner, rect |-> rect,
          fieldPositions |-> fieldPositions,
          currentPosition |-> fieldPositions[fieldId],
          down |-> CornerOf(fieldPositions[fieldId], corner)])
    /\ UNCHANGED <<step, imageData, fields, fieldPositions, isDraggingField, now,
                   writes, lastPointer>>
    /\ UNCHANGED <<pendingTemplate, lvars, pvars>>

\* MouseMove with a handler that stays registered after the mouseup and keeps
\* dragging the selected field
MouseMove_ListenerLeft ==
  \E p \in Pointers, rect \in CanvasRects :
    /\ pendingTemplate = <<>>
    /\ nEvents < MaxEvents
    /\ nEvents' = nEvents + 1
    /\ lastPointer' = p
    /\ writes' = [i \in 1..Len(listeners) |-> HandlerWrite(listeners[i], p)]
    /\ fieldPositions' =
         IF listeners # <<>> THEN writes'[Len(listeners)]
         ELSE IF selectedFieldId \in DOMAIN fieldPositions
           THEN Put(fieldPositions, selectedFieldId,
                    DragRect(fieldPositions[selectedFieldId],
                             PointerPercent(p[1], rect.left, rect.width),
                             PointerPercent(p[2], rect.top, rect.height)))
         ELSE fieldPositions
    /\ UNCHANGED <<step, imageData, fields, selectedFieldId, isDraggingField, now,
                   listeners>>
    /\ UNCHANGED <<pendingTemplate, lvars, pvars>>

\* a mousemove event on document: every registered handleMouseMove runs, in
\* registration order, and the last setFieldPositions call is the new state
MouseMove ==
  \E p \in Pointers :
    /\ pendingTemplate = <<>>
    /\ nEvents < MaxEvents
    /\ nEvents' = nEvents + 1
    /\ lastPointer' = p
    /\ writes' = [i \in 1..Len(listeners) |-> HandlerWrite(listeners[i], p)]
    /\ fieldPositions' = IF listeners = <<>> THEN fieldPositions
                         ELSE writes'[Len(listeners)]
    /\ UNCHANGED <<step, imageData, fields, selectedFieldId, isDraggingField, now,
                   listeners>>
    /\ UNCHANGED <<pendingTemplate, lvars, pvars>>

\* a mouseup event on document: every registered handleMouseUp runs
MouseUp ==
  /\ pendingTemplate = <<>>
  /\ listeners # <<>>
  /\ isDraggingField' = IF \E i \in DOMAIN listeners : listeners[i].kind = "drag"
                        THEN FALSE ELSE isDraggingField
  /\ listeners' = <<>>
  /\ writes' = <<>>
  /\ lastPointer' = <<0, 0>>
  /\ UNCHANGED <<step, imageData, fields, fieldPositions, selectedFieldId, now,
                 nEvents>>
  /\ UNCHANGED <<pendingTemplate, lvars, pvars>>

\* templates the builder is opened with for editing (the template prop):
\* persisted fields and positions, positions outside the NormalizedRect
\* invariant included; the ids were made by an earlier session's Date.now()
PersistedTemplates ==
  { [fields |-> <<-1>>,
     field_positions |-> (-1 :> [x |-> R(10), y |-> R(10), width |-> R(20), height |-> R(10)]),
     image_url |-> TRUE, image_width |-> 800, image_height |-> 400],
    [fields |-> <<-1>>,
     field_positions |-> (-1 :> [x |-> R(90), y |-> R(10), width |-> R(20), height |-> R(10)]),
     image_url |-> TRUE, image_width |-> 0, image_height |-> 0],
    [fields |-> <<-1>>,
     field_positions |-> (-1 :> [x |-> R(-5), y |-> R(50), width |-> R(3), height |-> R(10)]),
     image_url |-> FALSE, image_width |-> 0, image_height |-> 0] }

\* the effect "Load template data if editing", run after the first render
loadTemplate ==
  /\ pendingTemplate # <<>>
  /\ LET template == pendingTemplate[1]
     IN  /\ fields' = template.fields
         /\ fieldPositions' = template.field_positions
         /\ imageData' = IF template.image_url
                           THEN <<[width |-> IF template.image_width # 0
                                               THEN template.image_width ELSE 800,
                                   height |-> IF template.image_height # 0
                                                THEN template.image_height ELSE 1000]>>
                           ELSE imageData
         /\ step' = IF template.image_url THEN 3 ELSE step
  /\ pendingTemplate' = <<>>
  /\ UNCHANGED <<selectedFieldId, isDraggingField, now, listeners, writes,
                 lastPointer, nEvents>>
  /\ UNCHANGED <<lvars, pvars>>

\* the builder mounted with a template prop, before its effects have run
MountedForEdit ==
  /\ step = 1
  /\ imageData = <<>>
  /\ fields = <<>>
  /\ fieldPositions = [i \in {} |-> DefaultPosition]
  /\ selectedFieldId = NoField
  /\ isDraggingField = FALSE
  /\ now = 1
  /\ listeners = <<>>
  /\ writes = <<>>
  /\ lastPointer = <<0, 0>>
  /\ nEvents = 0
  /\ pendingTemplate \in { <<t>> : t \in PersistedTemplates }

\* ------------------------------------------------------------------------
\* TemplateCanvas / PreviewCanvas: display layout
\* ------------------------------------------------------------------------
\* templates the selector offers: has an image_url or not, declared size or 0
Templates ==
  { [image_url |-> TRUE,  image_width |-> 800, image_height |-> 400],
    [image_url |-> TRUE,  image_width |-> 0,   image_height |-> 0],
    [image_url |-> FALSE, image_width |-> 800, image_height |-> 400],
    [image_url |-> FALSE, image_width |-> 0,   image_height |-> 0] }

\* fields and field_positions of every template of Templates
TemplateFields == <<1, 2, 3>>

TemplatePositions ==
  (1 :> [x |-> R(10), y |-> R(10), width |-> R(20), height |-> R(10)]) @@
  (2 :> [x |-> R(25), y |-> R(25), width |-> R(50), height |-> R(10)])

\* img.width / img.height an image load can report
NaturalSizes ==
  { [width |-> 800, height |-> 400], [width |-> 400, height |-> 800],
    [width |-> 0, height |-> 0], [width |-> 800, height |-> 0] }

\* offsetWidth / offsetHeight the layout engine can give the canvas element
ContainerSizes ==
  { [width |-> 1000, height |-> 500], [width |-> 1000, height |-> 1000],
    [width |-> 300, height |-> 600], [width |-> 0, height |-> 500],
    [width |-> 1000, height |-> 0], [width |-> 0, height |-> 0] }

ZeroDisplay == [width |-> R(0), height |-> R(0), offsetX |-> R(0), offsetY |-> R(0)]

ZeroImage == [width |-> 0, height |-> 0]

DEFAULT_CANVAS_STATE == [scale |-> R(1), positionX |-> 0, positionY |-> 0]

\* scales the zoom wrapper reports, from minScale 0.1 to maxScale 5
ViewportScales == { Norm(1, 10), Norm(1, 2), R(1), R(2), R(5) }

\* positionX / positionY the zoom wrapper reports
ViewportPositions == {0, -40}

\* updateDisplayDimensions with the comparison of the aspect ratios reversed
updateDisplayDimensions_Cover(containerWidth, containerHeight, img) ==
  LET imageAspectRatio == Div(R(img.width), R(img.height))
      containerAspectRatio == Div(R(containerWidth), R(containerHeight))
  IN  IF Lt(containerAspectRatio, imageAspectRatio)
        THEN LET displayHeight == R(containerHeight)
                 displayWidth == Mul(displayHeight, imageAspectRatio)
             IN  [width |-> displayWidth, height |-> displayHeight,
                  offsetX |-> Div(Sub(R(containerWidth), displayWidth), R(2)),
                  offsetY |-> R(0)]
        ELSE LET displayWidth == R(containerWidth)
                 displayHeight == Div(displayWidth, imageAspectRatio)
             IN  [width |-> displayWidth, height |-> displayHeight,
                  offsetX |-> R(0),
                  offsetY |-> Div(Sub(R(containerHeight), displayHeight), R(2))]

\* TemplateCanvas: the value updateDisplayDimensions passes to setDisplayDimensions
updateDisplayDimensions(containerWidth, containerHeight, img) ==
  LET imageAspectRatio == Div(R(img.width), R(img.height))
      containerAspectRatio == Div(R(containerWidth), R(containerHeight))
  IN  IF Lt(imageAspectRatio, containerAspectRatio)
        THEN LET displayHeight == R(containerHeight)
                 displayWidth == Mul(displayHeight, imageAspectRatio)
             IN  [width |-> displayWidth, height |-> displayHeight,
                  offsetX |-> Div(Sub(R(containerWidth), displayWidth), R(2)),
                  offsetY |-> R(0)]
        ELSE LET displayWidth == R(containerWidth)
                 displayHeight == Div(displayWidth, imageAspectRatio)
             IN  [width |-> displayWidth, height |-> displayHeight,
                  offsetX |-> R(0),
                  offsetY |-> Div(Sub(R(containerHeight), displayHeight), R(2))]

\* previewUpdateDisplayDimensions with offsets that are not halved
previewUpdateDisplayDimensions_Uncentred(containerWidth, containerHeight, img) ==
  LET imageAspectRatio == Div(R(img.width), R(img.height))
      containerAspectRatio == Div(R(containerWidth), R(containerHeight))
      wider == Lt(imageAspectRatio, containerAspectRatio)
      displayHeight == IF wider THEN R(containerHeight)
                       ELSE Div(R(containerWidth), imageAspectRatio)
      displayWidth == IF wider THEN Mul(R(containerHeight), imageAspectRatio)
                      ELSE R(containerWidth)
  IN  [width |-> displayWidth, height |-> displayHeight,
       offsetX |-> IF wider THEN Sub(R(containerWidth), displayWidth) ELSE R(0),
       offsetY |-> IF wider THEN R(0) ELSE Sub(R(containerHeight), displayHeight)]

\* PreviewCanvas: its own copy of updateDisplayDimensions
previewUpdateDisplayDimensions(containerWidth, containerHeight, img) ==
  LET imageAspectRatio == Div(R(img.width), R(img.height))
      containerAspectRatio == Div(R(containerWidth), R(containerHeight))
      wider == Lt(imageAspectRatio, containerAspectRatio)
      displayHeight == IF wider THEN R(containerHeight)
                       ELSE Div(R(containerWidth), imageAspectRatio)
      displayWidth == IF wider THEN Mul(R(containerHeight), imageAspectRatio)
                      ELSE R(containerWidth)
  IN  [width |-> displayWidth, height |-> displayHeight,
       offsetX |-> IF wider THEN Div(Sub(R(containerWidth), displayWidth), R(2)) ELSE R(0),
       offsetY |-> IF wider THEN R(0) ELSE Div(Sub(R(containerHeight), displayHeight), R(2))]

\* the aspect ratios one run of updateDisplayDimensions computes
LayoutLocals(cont, img) ==
  [containerWidth |-> cont.width, containerHeight |-> cont.height,
   imageWidth |-> img.width, imageHeight |-> img.height,
   imageAspectRatio |-> Div(R(img.width), R(img.height)),
   containerAspectRatio |-> Div(R(cont.width), R(cont.height))]

\* the layout effect of a canvas, run after a render in which imageDimensions is
\* img: guard, updateDisplayDimensions(), addEventListener('resize', ...)
LayoutEffect(preview, cont, img, display, last) ==
  IF img.width = 0 \/ img.height = 0
    THEN [display |-> display, listener |-> <<>>, last |-> last]
    ELSE [display |-> IF preview
                        THEN previewUpdateDisplayDimensions(cont.width, cont.height, img)
                        ELSE updateDisplayDimensions(cont.width, cont.height, img),
          listener |-> <<img>>,
          last |-> <<LayoutLocals(cont, img)>>]

\* mount of a canvas for template t: useState initial values, the image-loading
\* effect, then the layout effect
Mount(t, preview, cont) ==
  LET direct == ~t.image_url /\ t.image_width # 0 /\ t.image_height # 0
      img == IF direct THEN [width |-> t.image_width, height |-> t.image_height]
             ELSE ZeroImage
      eff == LayoutEffect(preview, cont, img, ZeroDisplay, <<>>)
  IN  /\ imageDimensions' = img
      /\ pendingLoad' = t.image_url
      /\ container' = cont
      /\ displayDimensions' = eff.display
      /\ resizeListener' = eff.listener
      /\ lastLayout' = eff.last

Unmounted ==
  /\ imageDimensions' = ZeroImage
  /\ pendingLoad' = FALSE
  /\ container' = [width |-> 0, height |-> 0]
  /\ displayDimensions' = ZeroDisplay
  /\ resizeListener' = <<>>
  /\ lastLayout' = <<>>

LayoutInit ==
  /\ selectedTemplate = <<>>
  /\ isPreviewMode = FALSE
  /\ formData = {}
  /\ imageDimensions = ZeroImage
  /\ pendingLoad = FALSE
  /\ container = [width |-> 0, height |-> 0]
  /\ displayDimensions = ZeroDisplay
  /\ resizeListener = <<>>
  /\ lastLayout = <<>>
  /\ canvasState = DEFAULT_CANVAS_STATE

\* TemplateSelector: setSelectedTemplate(template)
setSelectedTemplate ==
  \E t \in Templates, cont \in ContainerSizes :
    /\ selectedTemplate = <<>>
    /\ selectedTemplate' = <<t>>
    /\ Mount(t, isPreviewMode, cont)
    /\ UNCHANGED <<isPreviewMode, formData>>
    /\ UNCHANGED <<canvasState, bvars, pvars>>

\* App.handleBack: setSelectedTemplate(null); clearFormData()
handleBack ==
  /\ selectedTemplate # <<>>
  /\ selectedTemplate' = <<>>
  /\ formData' = {}
  /\ Unmounted
  /\ UNCHANGED isPreviewMode
  /\ UNCHANGED <<canvasState, bvars, pvars>>

\* toolbar: setPreviewMode(!isPreviewMode) swaps the mounted canvas
setPreviewMode ==
  \E cont \in ContainerSizes :
    /\ selectedTemplate # <<>>
    /\ isPreviewMode' = ~isPreviewMode
    /\ Mount(selectedTemplate[1], ~isPreviewMode, cont)
    /\ UNCHANGED <<selectedTemplate, formData>>
    /\ UNCHANGED <<canvasState, bvars, pvars>>

\* img.onload of the image-loading effect
imgOnload ==
  \E img \in NaturalSizes, cont \in ContainerSizes :
    LET eff == LayoutEffect(isPreviewMode, cont, img, displayDimensions, lastLayout)
    IN  /\ pendingLoad
        /\ pendingLoad' = FALSE
        /\ imageDimensions' = img
        /\ container' = cont
        /\ displayDimensions' = eff.display
        /\ resizeListener' = eff.listener
        /\ lastLayout' = eff.last
        /\ UNCHANGED <<selectedTemplate, isPreviewMode, formData>>
        /\ UNCHANGED <<canvasState, bvars, pvars>>

\* the window is resized: the canvas element gets a new size and the registered
\* resize listener, if any, runs
windowResize ==
  \E cont \in ContainerSizes :
    LET eff == LayoutEffect(isPreviewMode, cont, resizeListener[1], displayDimensions, lastLayout)
    IN  /\ selectedTemplate # <<>>
        /\ cont # container
        /\ container' = cont
        /\ displayDimensions' = IF resizeListener = <<>> THEN displayDimensions ELSE eff.display
        /\ lastLayout' = IF resizeListener = <<>> THEN lastLayout ELSE eff.last
        /\ UNCHANGED <<selectedTemplate, isPreviewMode, formData, imageDimensions,
                       pendingLoad, resizeListener>>
        /\ UNCHANGED <<canvasState, bvars, pvars>>

\* field editor popup (edit mode only): a value is saved or cleared
setFormValue ==
  \E f \in Range(TemplateFields) :
    /\ selectedTemplate # <<>>
    /\ ~isPreviewMode
    /\ formData' = IF f \in formData THEN formData \ {f} ELSE formData \cup {f}
    /\ UNCHANGED <<selectedTemplate, isPreviewMode, imageDimensions, displayDimensions,
                   container, pendingLoad, resizeListener, lastLayout>>
    /\ UNCHANGED <<canvasState, bvars, pvars>>

\* onTransformed of the zoom wrapper of the mounted canvas: setCanvasState
setCanvasState ==
  \E scale \in ViewportScales, positionX \in ViewportPositions,
     positionY \in ViewportPositions :
    /\ selectedTemplate # <<>>
    /\ canvasState' = [scale |-> scale, positionX |-> positionX, positionY |-> positionY]
    /\ UNCHANGED <<selectedTemplate, isPreviewMode, formData, imageDimensions,
                   displayDimensions, container, pendingLoad, resizeListener, lastLayout>>
    /\ UNCHANGED <<bvars, pvars>>

\* RenderedOverlays without the displayDimensions.width > 0 guard
RenderedOverlays_Unguarded(preview) ==
  { f \in Range(TemplateFields) :
      /\ f \in DOMAIN TemplatePositions
      /\ (preview => f \in formData) }

\* the field ids a canvas renders an overlay for
RenderedOverlays(preview) ==
  IF Lt(R(0), displayDimensions.width)
    THEN { f \in Range(TemplateFields) :
             /\ f \in DOMAIN TemplatePositions
             /\ (preview => f \in formData) }
    ELSE {}

\* ------------------------------------------------------------------------
\* positioning.ts: percentToPixels / pixelsToPercent as functions of numbers
\* ------------------------------------------------------------------------
RectKeys == {"x", "y", "width", "height"}

\* whole-percentage rects that satisfy the NormalizedRect invariant
PercentRects ==
  { r \in [x : {0, 7, 25}, y : {0, 14, 64}, width : {5, 28, 50}, height : {3, 10}] :
      r.x + r.width <= 100 /\ r.y + r.height <= 100 }

\* imageWidth / imageHeight arguments, zero included
Frames ==
  { [width |-> 200, height |-> 100], [width |-> 800, height |-> 400],
    [width |-> 1000, height |-> 1000], [width |-> 3, height |-> 7],
    [width |-> 0, height |-> 100], [width |-> 100, height |-> 0],
    [width |-> 0, height |-> 0] }

\* percentToPixels of a rect of whole percentages
percentToPixels64(p, imageWidth, imageHeight) ==
  [x |-> F64Mul(F64Div(F64(p.x), 100), imageWidth),
   y |-> F64Mul(F64Div(F64(p.y), 100), imageHeight),
   width |-> F64Mul(F64Div(F64(p.width), 100), imageWidth),
   height |-> F64Mul(F64Div(F64(p.height), 100), imageHeight)]

\* pixelsToPercent dividing y and height by imageWidth
pixelsToPercent64_ByWidth(px, imageWidth, imageHeight) ==
  [x |-> F64Mul(F64Div(px.x, imageWidth), 100),
   y |-> F64Mul(F64Div(px.y, imageWidth), 100),
   width |-> F64Mul(F64Div(px.width, imageWidth), 100),
   height |-> F64Mul(F64Div(px.height, imageWidth), 100)]

pixelsToPercent64(px, imageWidth, imageHeight) ==
  [x |-> F64Mul(F64Div(px.x, imageWidth), 100),
   y |-> F64Mul(F64Div(px.y, imageHeight), 100),
   width |-> F64Mul(F64Div(px.width, imageWidth), 100),
   height |-> F64Mul(F64Div(px.height, imageHeight), 100)]

\* the arguments of a round trip, no call made yet
TransformArguments ==
  /\ percent \in PercentRects
  /\ frame \in Frames
  /\ pixels = <<>>
  /\ percentBack = <<>>
  /\ fieldHeight = R(0)
  /\ fontSize = <<>>

\* a caller converts the rect to pixels of the frame
callPercentToPixels ==
  /\ pixels = <<>>
  /\ pixels' = <<percentToPixels64(percent, frame.width, frame.height)>>
  /\ UNCHANGED <<percent, frame, percentBack, fieldHeight, fontSize>>
  /\ UNCHANGED <<bvars, lvars>>

\* a caller converts the pixel rect back to percentages of the same frame
callPixelsToPercent ==
  /\ pixels # <<>>
  /\ percentBack = <<>>
  /\ percentBack' = <<pixelsToPercent64(pixels[1], frame.width, frame.height)>>
  /\ UNCHANGED <<percent, frame, pixels, fieldHeight, fontSize>>
  /\ UNCHANGED <<bvars, lvars>>

\* ------------------------------------------------------------------------
\* fontSizing.ts
\* ------------------------------------------------------------------------
\* calculateFontSize without the lower limit of 10
calculateFontSize_NoMin(h) == MathMin(R(20), Mul(h, Norm(3, 5)))

calculateFontSize(h) == MathMax(R(10), MathMin(R(20), Mul(h, Norm(3, 5))))

calculateLineHeight(size) == Mul(size, Norm(6, 5))

\* a template literal `${v}px`
Px(v) == [px |-> v]

getTextStyle(h) ==
  LET size == calculateFontSize(h)
      lineHeight == calculateLineHeight(size)
  IN  [fontSize |-> Px(size), lineHeight |-> Px(lineHeight)]

\* parseFloat of a string `${v}px`: the number before the unit
parseFloat(str) == str.px

\* pixel heights of a field: 0, 1/2, 1, ..., MaxHeight
FieldHeights == { Norm(k, 2) : k \in 0..(2 * MaxHeight) }

FontArguments ==
  /\ percent = [x |-> 0, y |-> 0, width |-> 0, height |-> 0]
  /\ frame = [width |-> 0, height |-> 0]
  /\ pixels = <<>>
  /\ percentBack = <<>>
  /\ fieldHeight \in FieldHeights
  /\ fontSize = <<>>

\* a caller asks for the font size of a field of that height
callCalculateFontSize ==
  /\ fontSize = <<>>
  /\ fontSize' = <<calculateFontSize(fieldHeight)>>
  /\ UNCHANGED <<percent, frame, pixels, percentBack, fieldHeight>>
  /\ UNCHANGED <<bvars, lvars>>

\* ------------------------------------------------------------------------
\* FieldOverlay.tsx: what the two canvases render for a field
\* ------------------------------------------------------------------------
\* percentToPixels scaling x and width by imageHeight
percentToPixels_ByHeight(p, imageWidth, imageHeight) ==
  [x |-> Mul(Div(p.x, R(100)), imageHeight),
   y |-> Mul(Div(p.y, R(100)), imageHeight),
   width |-> Mul(Div(p.width, R(100)), imageHeight),
   height |-> Mul(Div(p.height, R(100)), imageHeight)]

percentToPixels(p, imageWidth, imageHeight) ==
  [x |-> Mul(Div(p.x, R(100)), imageWidth),
   y |-> Mul(Div(p.y, R(100)), imageHeight),
   width |-> Mul(Div(p.width, R(100)), imageWidth),
   height |-> Mul(Div(p.height, R(100)), imageHeight)]

\* FieldOverlay with the text of the value divided by the scale prop
FieldOverlay_Compensated(position, hasValue, imageWidth, imageHeight, offsetX, offsetY, scale, actualImageWidth, actualImageHeight) ==
  LET pixelPosition == percentToPixels(position, imageWidth, imageHeight)
      actualPixelPosition == percentToPixels(position, actualImageWidth, actualImageHeight)
      actualFontSize == Div(calculateFontSize(actualPixelPosition.height), scale)
  IN  [left |-> Px(Add(pixelPosition.x, offsetX)),
       top |-> Px(Add(pixelPosition.y, offsetY)),
       width |-> Px(pixelPosition.width),
       height |-> Px(pixelPosition.height),
       label |-> [fontSize |-> Px(R(12))],
       value |-> IF hasValue
                   THEN <<[fontSize |-> Px(actualFontSize),
                           lineHeight |-> Px(Mul(actualFontSize, Norm(6, 5)))]>>
                   ELSE <<>>,
       icon |-> IF hasValue THEN <<>>
                ELSE <<[width |-> Px(R(32)), height |-> Px(R(32))]>>]

\* the styles the FieldOverlay component of the editor canvas emits
FieldOverlay(position, hasValue, imageWidth, imageHeight, offsetX, offsetY, scale, actualImageWidth, actualImageHeight) ==
  LET pixelPosition == percentToPixels(position, imageWidth, imageHeight)
      actualPixelPosition == percentToPixels(position, actualImageWidth, actualImageHeight)
      actualFontSize == calculateFontSize(actualPixelPosition.height)
  IN  [left |-> Px(Add(pixelPosition.x, offsetX)),
       top |-> Px(Add(pixelPosition.y, offsetY)),
       width |-> Px(pixelPosition.width),
       height |-> Px(pixelPosition.height),
       label |-> [fontSize |-> Px(R(12))],
       value |-> IF hasValue
                   THEN <<[fontSize |-> Px(actualFontSize),
                           lineHeight |-> Px(Mul(actualFontSize, Norm(6, 5)))]>>
                   ELSE <<>>,
       icon |-> IF hasValue THEN <<>>
                ELSE <<[width |-> Px(R(32)), height |-> Px(R(32))]>>]

\* PreviewOverlay placing the text without the offsets of the display layout
PreviewOverlay_NoOffset(position, display, image) ==
  LET pixelPosition == percentToPixels(position, display.width, display.height)
      actualPixelPosition == percentToPixels(position, R(image.width), R(image.height))
      textStyle == getTextStyle(actualPixelPosition.height)
      scale == Div(display.width, R(image.width))
  IN  [left |-> Px(pixelPosition.x),
       top |-> Px(pixelPosition.y),
       width |-> Px(pixelPosition.width),
       height |-> Px(pixelPosition.height),
       fontSize |-> Px(Mul(parseFloat(textStyle.fontSize), scale)),
       lineHeight |-> Px(Mul(parseFloat(textStyle.lineHeight), scale))]

\* the style PreviewCanvas emits for the text of a field that has a value
PreviewOverlay(position, display, image) ==
  LET pixelPosition == percentToPixels(position, display.width, display.height)
      actualPixelPosition == percentToPixels(position, R(image.width), R(image.height))
      textStyle == getTextStyle(actualPixelPosition.height)
      scale == Div(display.width, R(image.width))
      scaledFontSize == Mul(parseFloat(textStyle.fontSize), scale)
      scaledLineHeight == Mul(parseFloat(textStyle.lineHeight), scale)
  IN  [left |-> Px(Add(pixelPosition.x, display.offsetX)),
       top |-> Px(Add(pixelPosition.y, display.offsetY)),
       width |-> Px(pixelPosition.width),
       height |-> Px(pixelPosition.height),
       fontSize |-> Px(scaledFontSize),
       lineHeight |-> Px(scaledLineHeight)]

\* TemplateCanvas: the FieldOverlay of field f with the props of lines 167-180
EditorOverlay(f) ==
  FieldOverlay(TemplatePositions[f], f \in formData,
               displayDimensions.width, displayDimensions.height,
               displayDimensions.offsetX, displayDimensions.offsetY,
               canvasState.scale,
               R(imageDimensions.width), R(imageDimensions.height))

\* the overlays the mounted editor canvas renders
EditorOverlays ==
  IF selectedTemplate = <<>> \/ isPreviewMode THEN {} ELSE RenderedOverlays(FALSE)

\* the overlays the mounted preview canvas renders
PreviewOverlays ==
  IF selectedTemplate = <<>> \/ ~isPreviewMode THEN {} ELSE RenderedOverlays(TRUE)

\* ------------------------------------------------------------------------
\* Specifications
\* ------------------------------------------------------------------------
\* no utility call is being followed
NoCall ==
  /\ percent = [x |-> 0, y |-> 0, width |-> 0, height |-> 0]
  /\ frame = [width |-> 0, height |-> 0]
  /\ pixels = <<>>
  /\ percentBack = <<>>
  /\ fieldHeight = R(0)
  /\ fontSize = <<>>

Init == BuilderInit /\ LayoutInit /\ NoCall

Next ==
  \/ ImageUploaded
  \/ addField
  \/ removeField
  \/ SelectField
  \/ handleFieldDrag
  \/ handleFieldResize
  \/ MouseMove
  \/ MouseUp

Spec == Init /\ [][Next]_vars

LayoutNext ==
  \/ setSelectedTemplate
  \/ handleBack
  \/ setPreviewMode
  \/ imgOnload
  \/ windowResize
  \/ setFormValue
  \/ setCanvasState

SpecLayout == Init /\ [][LayoutNext]_vars

TransformNext ==
  \/ callPercentToPixels
  \/ callPixelsToPercent

TransformInit == BuilderInit /\ LayoutInit /\ TransformArguments

SpecTransform == TransformInit /\ [][TransformNext]_vars

FontInit == BuilderInit /\ LayoutInit /\ FontArguments

FontNext == callCalculateFontSize

SpecFont == FontInit /\ [][FontNext]_vars

EditInit == MountedForEdit /\ LayoutInit /\ NoCall

EditNext ==
  \/ loadTemplate
  \/ ImageUploaded
  \/ addField
  \/ removeField
  \/ SelectField
  \/ handleFieldDrag
  \/ handleFieldResize
  \/ MouseMove
  \/ MouseUp

SpecEdit == EditInit /\ [][EditNext]_vars

\* ------------------------------------------------------------------------
\* Properties of the field geometry editor
\* ------------------------------------------------------------------------
\* the NormalizedRect invariant
ValidRect(r) ==
  /\ Le(R(0), r.x) /\ Le(R(0), r.y)
  /\ Le(Add(r.x, r.width), R(100)) /\ Le(Add(r.y, r.height), R(100))
  /\ Le(R(5), r.width) /\ Le(R(3), r.height)

\* the rect listener i wrote for its field in the last mousemove
Written(i) == writes[i][listeners[i].fieldId]

\* percentage position of the last mousemove, as listener i computes it
LastX(i) == PointerPercent(lastPointer[1], listeners[i].rect.left, listeners[i].rect.width)

LastY(i) == PointerPercent(lastPointer[2], listeners[i].rect.top, listeners[i].rect.height)

OutOfRange(v) == Lt(v, R(0)) \/ Lt(R(100), v)

Opposite(corner) ==
  CASE corner = "se" -> "nw" [] corner = "sw" -> "ne"
    [] corner = "ne" -> "sw" [] corner = "nw" -> "se"

\* C1: starting from an empty builder, every rect of the field-position map, and
\* every rect any gesture handler writes during a mousemove (also the writes a
\* later handler of the same event overwrites), satisfies the NormalizedRect
\* invariant: 0 <= x, 0 <= y, x + width <= 100, y + height <= 100, width >= 5,
\* height >= 3.
C1_RectInvariant ==
  /\ \A f \in DOMAIN fieldPositions : ValidRect(fieldPositions[f])
  /\ \A i \in DOMAIN writes : \A f \in DOMAIN writes[i] : ValidRect(writes[i][f])

\* a resize of a field that an earlier gesture had already moved, with the
\* pointer outside the container
C1_Witness ==
  /\ Len(writes) = 1
  /\ listeners[1].kind = "resize"
  /\ listeners[1].currentPosition # DefaultPosition
  /\ OutOfRange(LastX(1)) /\ OutOfRange(LastY(1))
  /\ fieldPositions[listeners[1].fieldId] = Written(1)

\* C2: every mousemove of a drag gesture writes 0 <= x <= 100 - width and
\* 0 <= y <= 100 - height with width and height those of the dragged field; a
\* field of width 20 whose pointer is at 95% ends with x = 80.
C2_DragClamp ==
  \A i \in DOMAIN writes :
    listeners[i].kind = "drag" =>
      LET cur == listeners[i].currentPosition
          r == Written(i)
      IN  /\ Le(R(0), r.x) /\ Le(r.x, Sub(R(100), cur.width))
          /\ Le(R(0), r.y) /\ Le(r.y, Sub(R(100), cur.height))
          /\ (cur.width = R(20) /\ LastX(i) = R(95)) => r.x = R(80)

C2_Witness ==
  \E i \in DOMAIN writes :
    /\ listeners[i].kind = "drag"
    /\ listeners[i].currentPosition.width = R(20)
    /\ listeners[i].currentPosition.height = R(10)
    /\ LastX(i) = R(95)
    /\ Written(i).x = R(80)
    /\ fieldPositions[listeners[i].fieldId].x = R(80)

C4_MinimumSize ==
  \A i \in DOMAIN writes :
    (listeners[i].kind = "resize" /\ ValidRect(listeners[i].currentPosition)) =>
      /\ Le(R(5), Written(i).width)
      /\ Le(R(3), Written(i).height)

\* a resize whose pointer went past the anchored corner on both axes
C4_Witness ==
  \E i \in DOMAIN writes :
    /\ listeners[i].kind = "resize"
    /\ listeners[i].corner = "se"
    /\ Lt(LastX(i), listeners[i].currentPosition.x)
    /\ Lt(LastY(i), listeners[i].currentPosition.y)
    /\ Written(i).width = R(5)
    /\ Written(i).height = R(3)

\* C5: a drag translates x and y by the pointer's displacement since
\* pointer-down: whenever that translation needs no clamping, the offset between
\* the pointer and the field's top-left corner is what it was at pointer-down.
C5_DragKeepsPointerOffset ==
  \A i \in DOMAIN writes :
    listeners[i].kind = "drag" =>
      LET cur == listeners[i].currentPosition
          down == listeners[i].down
          tx == Add(cur.x, Sub(LastX(i), down[1]))
          ty == Add(cur.y, Sub(LastY(i), down[2]))
      IN  ( /\ Le(R(0), tx) /\ Le(tx, Sub(R(100), cur.width))
            /\ Le(R(0), ty) /\ Le(ty, Sub(R(100), cur.height)) )
          => /\ Sub(LastX(i), Written(i).x) = Sub(down[1], cur.x)
             /\ Sub(LastY(i), Written(i).y) = Sub(down[2], cur.y)

Clamp100(v) == MathMax(R(0), MathMin(R(100), v))

\* C6: a mousemove whose percentage position is outside [0,100] is handled like
\* any other (the handler's write becomes the field-position map) and writes
\* exactly the rect the same handler computes for the position clamped to
\* [0,100] on each axis, for drag and for every resize corner.
C6_OutOfRangeClamped ==
  /\ \A i \in DOMAIN writes :
       /\ listeners[i].fieldId \in DOMAIN writes[i]
       /\ Written(i) = HandlerRect(listeners[i], Clamp100(LastX(i)), Clamp100(LastY(i)))
  /\ writes # <<>> => fieldPositions = writes[Len(writes)]

\* a nw resize and a drag, each with the pointer outside the container
C6_Witness ==
  \E i \in DOMAIN writes :
    /\ listeners[i].kind = "drag"
    /\ OutOfRange(LastX(i)) /\ OutOfRange(LastY(i))
    /\ Written(i) # listeners[i].currentPosition
    /\ fieldPositions[listeners[i].fieldId] = Written(i)
\* ------------------------------------------------------------------------
\* Properties of the display layout
\* ------------------------------------------------------------------------
\* the last updateDisplayDimensions run had strictly positive extents
PositiveExtents ==
  /\ lastLayout # <<>>
  /\ lastLayout[1].containerWidth > 0 /\ lastLayout[1].containerHeight > 0
  /\ lastLayout[1].imageWidth > 0 /\ lastLayout[1].imageHeight > 0

LayoutOf(cw, ch, iw, ih) ==
  /\ lastLayout # <<>>
  /\ lastLayout[1].containerWidth = cw /\ lastLayout[1].containerHeight = ch
  /\ lastLayout[1].imageWidth = iw /\ lastLayout[1].imageHeight = ih

Display(w, h, ox, oy) == [width |-> w, height |-> h, offsetX |-> ox, offsetY |-> oy]

\* C7: for strictly positive extents, a container relatively wider than the image
\* (cw/ch > iw/ih) gives displayHeight = ch, displayWidth = ch * iw/ih,
\* offsetY = 0, offsetX = (cw - displayWidth)/2; otherwise (equal ratios
\* included) displayWidth = cw, displayHeight = cw * ih/iw, offsetX = 0,
\* offsetY = (ch - displayHeight)/2.  1000x500 with 800x400 gives
\* {1000,500,0,0}; 1000x1000 with 800x400 gives {1000,500,0,250}.
C7_LayoutFormula ==
  PositiveExtents =>
    LET cw == lastLayout[1].containerWidth
        ch == lastLayout[1].containerHeight
        iw == lastLayout[1].imageWidth
        ih == lastLayout[1].imageHeight
    IN  /\ displayDimensions =
             IF cw * ih > iw * ch
               THEN Display(Norm(ch * iw, ih), R(ch), Norm(cw * ih - ch * iw, 2 * ih), R(0))
               ELSE Display(R(cw), Norm(cw * ih, iw), R(0), Norm(ch * iw - cw * ih, 2 * iw))
        /\ LayoutOf(1000, 500, 800, 400) =>
             displayDimensions = Display(R(1000), R(500), R(0), R(0))
        /\ LayoutOf(1000, 1000, 800, 400) =>
             displayDimensions = Display(R(1000), R(500), R(0), R(250))

\* the editor canvas letterboxes an 800x400 image in a 1000x1000 container
C7_Witness ==
  /\ ~isPreviewMode
  /\ LayoutOf(1000, 1000, 800, 400)
  /\ displayDimensions = Display(R(1000), R(500), R(0), R(250))

\* C8: for strictly positive extents the layout is a "contain" fit: the image
\* fits the container and touches it on at least one axis, its aspect ratio is
\* preserved, the offsets are non-negative with at least one of them 0, and the
\* image is centred on both axes.
C8_ContainFit ==
  PositiveExtents =>
    LET cw == R(lastLayout[1].containerWidth)
        ch == R(lastLayout[1].containerHeight)
        iw == R(lastLayout[1].imageWidth)
        ih == R(lastLayout[1].imageHeight)
        d == displayDimensions
    IN  /\ Le(d.width, cw) /\ Le(d.height, ch)
        /\ d.width = cw \/ d.height = ch
        /\ Mul(d.width, ih) = Mul(d.height, iw)
        /\ Le(R(0), d.offsetX) /\ Le(R(0), d.offsetY)
        /\ d.offsetX = R(0) \/ d.offsetY = R(0)
        /\ Add(Mul(R(2), d.offsetX), d.width) = cw
        /\ Add(Mul(R(2), d.offsetY), d.height) = ch

\* the preview canvas pillarboxes a 400x800 image in a 1000x500 container
C8_Witness ==
  /\ isPreviewMode
  /\ LayoutOf(1000, 500, 400, 800)
  /\ displayDimensions = Display(R(250), R(500), R(375), R(0))

\* C9: the layout computation never divides by a zero dimension: every aspect
\* ratio it computes has a non-zero container height, respectively a non-zero
\* image height, as its divisor.
C9_NoZeroDivision ==
  lastLayout # <<>> =>
    /\ lastLayout[1].containerHeight # 0
    /\ lastLayout[1].imageHeight # 0
    /\ IsFinite(lastLayout[1].containerAspectRatio)
    /\ IsFinite(lastLayout[1].imageAspectRatio)

\* the overlays of the canvas that is mounted, if any
MountedOverlays ==
  IF selectedTemplate = <<>> THEN {} ELSE RenderedOverlays(isPreviewMode)

\* C10: while the image's natural width or height is zero or unknown, or the
\* container has a zero width or height, neither canvas renders an overlay.
C10_NoOverlayWithoutLayout ==
  ( \/ imageDimensions.width = 0 \/ imageDimensions.height = 0
    \/ container.width = 0 \/ container.height = 0 )
  => MountedOverlays = {}

\* a loaded image and filled fields, in a container resized to zero width
C10_Witness ==
  /\ selectedTemplate # <<>>
  /\ imageDimensions = [width |-> 800, height |-> 400]
  /\ formData # {}
  /\ container = [width |-> 0, height |-> 500]
  /\ LayoutOf(0, 500, 800, 400)
  /\ MountedOverlays = {}

\* ------------------------------------------------------------------------
\* Properties of the percent / pixel transform
\* ------------------------------------------------------------------------
PositiveFrame == frame.width > 0 /\ frame.height > 0

\* a and b differ by less than 2^-30, which is below the tolerance 1e-9
WithinTolerance(a, b) ==
  \/ a = b
  \/ /\ a.cls \in {"zero", "fin"} /\ b.cls \in {"zero", "fin"}
     /\ LET dist == F64Distance(a, b) IN LenBits(dist.d) + dist.e <= -30

\* C11 as stated: for a rect that satisfies the invariant and a frame with
\* width > 0 and height > 0, pixelsToPercent(percentToPixels(r, w, h), w, h)
\* equals r on x, y, width and height.
C11_RoundTripEqual ==
  (PositiveFrame /\ percentBack # <<>>) =>
    \A k \in RectKeys : percentBack[1][k] = F64(percent[k])

\* C11: for a rect that satisfies the invariant and a frame with width > 0 and
\* height > 0, pixelsToPercent(percentToPixels(r, w, h), w, h) is within 1e-9
\* of r on x, y, width and height.
C11_RoundTripWithinTolerance ==
  (PositiveFrame /\ percentBack # <<>>) =>
    \A k \in RectKeys : WithinTolerance(percentBack[1][k], F64(percent[k]))

\* a round trip whose x came back rounded away from the 7 that went in
C11_Witness ==
  /\ PositiveFrame
  /\ percentBack # <<>>
  /\ percent.x = 7
  /\ percentBack[1].x # F64(7)
  /\ WithinTolerance(percentBack[1].x, F64(7))

\* a conversion that acts as the identity: a result, if there is one, is the
\* argument unchanged (the functions have no way of raising InvalidFrame)
SameRect(res, arg) == res # <<>> => res[1] = arg

\* C12: with a frame width or height of zero, percentToPixels and
\* pixelsToPercent reject the call or act as the identity instead of returning
\* a computed rectangle, and no component of a result is the Infinity or NaN
\* of a division by the zero dimension.
C12_ZeroFrameRejected ==
  ~PositiveFrame =>
    /\ SameRect(pixels, [k \in RectKeys |-> F64(percent[k])])
    /\ pixels # <<>> => SameRect(percentBack, pixels[1])
    /\ percentBack # <<>> =>
         \A k \in RectKeys : percentBack[1][k].cls \notin {"inf", "nan"}

\* ------------------------------------------------------------------------
\* Properties of the font size
\* ------------------------------------------------------------------------
\* 0.6 * fieldHeight
SixTenths(h) == Mul(Norm(3, 5), h)

\* C13: calculateFontSize(h) equals clamp(0.6 * h, 10, 20) for every pixel
\* height h >= 0: it lies in [10, 20], is 10 whenever 0.6 * h <= 10, 20 whenever
\* 0.6 * h >= 20 and 0.6 * h otherwise; 5 gives 10, 20 gives 12, 50 gives 20.
C13_FontSizeClamped ==
  fontSize # <<>> =>
    /\ Le(R(10), fontSize[1]) /\ Le(fontSize[1], R(20))
    /\ Le(SixTenths(fieldHeight), R(10)) => fontSize[1] = R(10)
    /\ Le(R(20), SixTenths(fieldHeight)) => fontSize[1] = R(20)
    /\ (Lt(R(10), SixTenths(fieldHeight)) /\ Lt(SixTenths(fieldHeight), R(20))) =>
         fontSize[1] = SixTenths(fieldHeight)
    /\ fieldHeight = R(5) => fontSize[1] = R(10)
    /\ fieldHeight = R(20) => fontSize[1] = R(12)
    /\ fieldHeight = R(50) => fontSize[1] = R(20)

\* the font size of a field 20 pixels high, strictly between the two limits
C13_Witness == fieldHeight = R(20) /\ fontSize = <<R(12)>>

\* ------------------------------------------------------------------------
\* Properties of the rendered overlays
\* ------------------------------------------------------------------------
\* the overlays of the mounted canvas that show the text of a value
TextOverlays == { f \in EditorOverlays \cup PreviewOverlays : f \in formData }

PreviewOverlayOf(f) ==
  PreviewOverlay(TemplatePositions[f], displayDimensions, imageDimensions)

\* font size and line height the mounted canvas emits for the value of field f
TextStyleOf(f) ==
  IF isPreviewMode
    THEN [fontSize |-> PreviewOverlayOf(f).fontSize,
          lineHeight |-> PreviewOverlayOf(f).lineHeight]
    ELSE EditorOverlay(f).value[1]

\* the layouts the mounted canvas computes for the loaded image in the
\* containers of ContainerSizes and renders overlays in
OtherDisplays ==
  { d \in { IF isPreviewMode
              THEN previewUpdateDisplayDimensions(c.width, c.height, imageDimensions)
              ELSE updateDisplayDimensions(c.width, c.height, imageDimensions) :
            c \in ContainerSizes } :
      Lt(R(0), d.width) }

\* the text style of field f in a render by the mounted canvas that differs
\* from the present one only in the display layout and the zoom
TextStyleAt(f, display, scale) ==
  IF isPreviewMode
    THEN [fontSize |-> PreviewOverlay(TemplatePositions[f], display, imageDimensions).fontSize,
          lineHeight |-> PreviewOverlay(TemplatePositions[f], display, imageDimensions).lineHeight]
    ELSE FieldOverlay(TemplatePositions[f], TRUE, display.width, display.height,
                      display.offsetX, display.offsetY, scale,
                      R(imageDimensions.width), R(imageDimensions.height)).value[1]

\* C14: the font size a renderer (editor overlay or preview) emits for a field
\* depends only on the field's pixel height in the natural image frame: for
\* the same NormalizedRect and natural image size, a render by the same canvas
\* in another display size or at another zoom emits the same font size.
C14_ResolutionInvariance ==
  \A f \in TextOverlays, display \in OtherDisplays, scale \in ViewportScales :
    TextStyleAt(f, display, scale).fontSize = TextStyleOf(f).fontSize

\* C15: for the same NormalizedRect, natural image size and display layout of
\* the container, the editor overlay and the preview emit the same font size
\* and the same line height for the text of a field.
C15_SameTextStyle ==
  \A f \in TextOverlays :
    /\ EditorOverlay(f).value[1].fontSize = PreviewOverlayOf(f).fontSize
    /\ EditorOverlay(f).value[1].lineHeight = PreviewOverlayOf(f).lineHeight

\* the editor overlay of field f rendered at another zoom
EditorOverlayAt(f, scale) ==
  FieldOverlay(TemplatePositions[f], f \in formData,
               displayDimensions.width, displayDimensions.height,
               displayDimensions.offsetX, displayDimensions.offsetY,
               scale,
               R(imageDimensions.width), R(imageDimensions.height))

\* the on-screen size of the label and of the empty-field icon of an overlay:
\* the emitted size times the scale of the outer transform
ChromeApparentSize(overlay, scale) ==
  [label |-> Mul(parseFloat(overlay.label.fontSize), scale),
   icon |-> IF overlay.icon = <<>> THEN <<>>
            ELSE <<Mul(parseFloat(overlay.icon[1].width), scale)>>]

\* C16: the label and the empty-field icon of a field are sized as
\* baseSize / scale, so their apparent on-screen size (emitted size * scale)
\* is the same at every viewport scale within [0.1, 5].
C16_ChromeConstantApparentSize ==
  \A f \in EditorOverlays, scale \in ViewportScales :
    ChromeApparentSize(EditorOverlayAt(f, scale), scale)
      = ChromeApparentSize(EditorOverlay(f), canvasState.scale)

\* rectangle and text size of an editor overlay
EditorGeometry(overlay) ==
  [left |-> overlay.left, top |-> overlay.top, width |-> overlay.width,
   height |-> overlay.height, value |-> overlay.value]

\* C17: two renders of a field by the editor overlay that differ only in
\* canvasState (scale, positionX, positionY) compute identical left, top, width,
\* height and font size.
C17_ViewportIndependence ==
  \A f \in EditorOverlays, scale \in ViewportScales :
    EditorGeometry(EditorOverlayAt(f, scale)) = EditorGeometry(EditorOverlay(f))

\* the editor renders a field with a value and an empty field, zoomed to the
\* maximum scale and panned
C17_Witness ==
  /\ canvasState = [scale |-> R(5), positionX |-> -40, positionY |-> -40]
  /\ imageDimensions = [width |-> 800, height |-> 400]
  /\ EditorOverlays = {1, 2}
  /\ formData = {1}
  /\ EditorOverlay(1).value = <<[fontSize |-> Px(R(20)), lineHeight |-> Px(R(24))]>>
  /\ EditorOverlay(2).value = <<>>

\* ------------------------------------------------------------------------
\* Properties of the gesture state machine
\* ------------------------------------------------------------------------
\* the gestures whose listeners are registered: <<>> is Idle, <<"drag">> is
\* Dragging, <<corner>> is Resizing(corner)
GestureState ==
  [i \in 1..Len(listeners) |->
     IF listeners[i].kind = "drag" THEN "drag" ELSE listeners[i].corner]

GestureStates == {<<>>, <<"drag">>} \cup { <<corner>> : corner \in Corners }

\* C18: the gesture state starts in Idle and only follows Idle -> Dragging ->
\* Idle and Idle -> Resizing(corner) -> Idle: a pointer-down starts one drag or
\* one resize of one corner from Idle only, and a gesture ends in Idle with its
\* listeners removed.
C18_GestureStateMachine ==
  /\ GestureState = <<>>
  /\ [][ /\ GestureState' \in GestureStates
         /\ GestureState # <<>> => GestureState' \in {GestureState, <<>>} ]_vars

\* C19: at most one drag/resize gesture is active at any time: never more than
\* one gesture's mousemove listener is registered, and no mousemove is handled
\* by two gestures that both write the field-position map.
C19_SingleGesture == Len(listeners) <= 1 /\ Len(writes) <= 1

\* ------------------------------------------------------------------------
\* Properties of a loaded template
\* ------------------------------------------------------------------------
\* C20: a NormalizedRect that violates its invariants on input is clamped when
\* it is read: after the builder has loaded a persisted template, every rect it
\* holds satisfies the NormalizedRect invariant.
C20_ClampedOnRead ==
  pendingTemplate = <<>> =>
    \A f \in DOMAIN fieldPositions : ValidRect(fieldPositions[f])

\* ------------------------------------------------------------------------
\* Properties of the writes of a gesture
\* ------------------------------------------------------------------------
\* C21: while no gesture is active (before any mousedown and after a gesture's
\* mouseup) a pointer event changes no field's rect: pointer movement mutates
\* the field-position map only between a mousedown on a field or handle and the
\* following mouseup.
C21_IdleMoveChangesNothing ==
  [][ (listeners = <<>> /\ nEvents' # nEvents) =>
        fieldPositions' = fieldPositions ]_vars

\* no gesture is active, a gesture has moved a field before, and the pointer
\* has moved since that gesture's mouseup
C21_Witness ==
  /\ listeners = <<>>
  /\ lastPointer # <<0, 0>>
  /\ \E f \in DOMAIN fieldPositions : fieldPositions[f] # DefaultPosition

\* the rect gesture i has written last: the rect of its last mousemove, or the
\* rect of its field at the mousedown if the pointer has not moved since
LastWritten(i) ==
  IF i \in DOMAIN writes THEN Written(i) ELSE listeners[i].currentPosition

\* C22: ending a gesture never alters geometry: after the mouseup of a drag or
\* resize gesture the field's rect equals the rect written by the gesture's
\* last mousemove (the rect before the gesture if there was no move); it is not
\* reverted to the gesture-start rect.
C22_MouseUpKeepsLastRect ==
  [][ (listeners # <<>> /\ listeners' = <<>>) =>
        \A i \in DOMAIN listeners :
          /\ listeners[i].fieldId \in DOMAIN fieldPositions'
          /\ fieldPositions'[listeners[i].fieldId] = LastWritten(i) ]_vars

\* C23: a drag gesture leaves the dragged field's width and height unchanged:
\* from its mousedown to its mouseup, after any sequence of mousemoves, width
\* and height of the field equal their values at the mousedown.
C23_DragKeepsSize ==
  \A i \in DOMAIN listeners :
    listeners[i].kind = "drag" =>
      /\ listeners[i].fieldId \in DOMAIN fieldPositions
      /\ fieldPositions[listeners[i].fieldId].width = listeners[i].currentPosition.width
      /\ fieldPositions[listeners[i].fieldId].height = listeners[i].currentPosition.height

\* C24: a drag or resize gesture on field f writes only f's entry of the
\* position map: from its mousedown to its mouseup every other field g has the
\* rect it had at the mousedown, and the map has the keys it had then.
C24_OnlyOwnEntry ==
  \A i \in DOMAIN listeners :
    /\ DOMAIN fieldPositions = DOMAIN listeners[i].fieldPositions
    /\ \A g \in DOMAIN fieldPositions \ {listeners[i].fieldId} :
         fieldPositions[g] = listeners[i].fieldPositions[g]

\* ------------------------------------------------------------------------
\* Properties of the on-screen rectangle of a field
\* ------------------------------------------------------------------------
\* left, top, width and height of a rendered overlay
ScreenRect(overlay) ==
  [left |-> overlay.left, top |-> overlay.top,
   width |-> overlay.width, height |-> overlay.height]

\* the fields of the template that have a position
PositionedFields == Range(TemplateFields) \cap DOMAIN TemplatePositions

\* C25: for the same container extent, image extent and NormalizedRect, the
\* editor canvas and the preview canvas compute the same display layout and the
\* same on-screen rectangle for the field: left = x/100 * displayWidth +
\* offsetX, top = y/100 * displayHeight + offsetY, width = width/100 *
\* displayWidth, height = height/100 * displayHeight.
C25_SameScreenRect ==
  PositiveExtents =>
    LET cont == [width |-> lastLayout[1].containerWidth,
                 height |-> lastLayout[1].containerHeight]
        img == [width |-> lastLayout[1].imageWidth,
                height |-> lastLayout[1].imageHeight]
        editor == updateDisplayDimensions(cont.width, cont.height, img)
        preview == previewUpdateDisplayDimensions(cont.width, cont.height, img)
    IN  /\ editor = preview
        /\ displayDimensions = editor
        /\ \A f \in PositionedFields :
             LET r == TemplatePositions[f]
                 inEditor == ScreenRect(FieldOverlay(r, f \in formData, editor.width,
                                 editor.height, editor.offsetX, editor.offsetY,
                                 canvasState.scale, R(img.width), R(img.height)))
                 inPreview == ScreenRect(PreviewOverlay(r, preview, img))
             IN  /\ inEditor = inPreview
                 /\ inEditor =
                      [left |-> Px(Add(Mul(Div(r.x, R(100)), editor.width), editor.offsetX)),
                       top |-> Px(Add(Mul(Div(r.y, R(100)), editor.height), editor.offsetY)),
                       width |-> Px(Mul(Div(r.width, R(100)), editor.width)),
                       height |-> Px(Mul(Div(r.height, R(100)), editor.height))]

\* the preview canvas shows the text of field 1 in a pillarboxed 400x800 image
C25_Witness ==
  /\ isPreviewMode
  /\ LayoutOf(1000, 500, 400, 800)
  /\ imageDimensions = [width |-> 400, height |-> 800]
  /\ 1 \in PreviewOverlays
  /\ ScreenRect(PreviewOverlayOf(1)) =
       [left |-> Px(R(400)), top |-> Px(R(50)), width |-> Px(R(50)), height |-> Px(R(50))]
  /\ ScreenRect(PreviewOverlayOf(1)) =
       ScreenRect(FieldOverlay(TemplatePositions[1], TRUE, displayDimensions.width,
                               displayDimensions.height, displayDimensions.offsetX,
                               displayDimensions.offsetY, canvasState.scale, R(400), R(800)))

\* ------------------------------------------------------------------------
\* Properties of the rect a resize writes
\* ------------------------------------------------------------------------
\* v lies in the range the dragged corner may take on one axis: within
\* [0, 100] and at least min away from the anchored edge, on the side of the
\* dragged edge
Allowed(v, anchor, min, after) ==
  /\ Le(R(0), v) /\ Le(v, R(100))
  /\ IF after THEN Le(Add(anchor, R(min)), v) ELSE Le(v, Sub(anchor, R(min)))

\* C26: in a resize gesture, whenever the percentage position of the pointer
\* lies in the range allowed for the dragged corner on an axis (within
\* [0, 100] and at least 5 horizontally / 3 vertically away from the anchored
\* edge), the dragged edge of the rect the move writes is at the pointer on that
\* axis, for each of the four corners.
C26_EdgeFollowsPointer ==
  \A i \in DOMAIN writes :
    listeners[i].kind = "resize" =>
      LET corner == listeners[i].corner
          anchor == CornerOf(listeners[i].currentPosition, Opposite(corner))
          edge == CornerOf(Written(i), corner)
      IN  /\ Allowed(LastX(i), anchor[1], 5, corner \in {"se", "ne"}) =>
               edge[1] = LastX(i)
          /\ Allowed(LastY(i), anchor[2], 3, corner \in {"se", "sw"}) =>
               edge[2] = LastY(i)

\* the nw handle of a field dragged to the bottom of the image is pulled up and
\* left to the pointer, both axes in range, and the field takes that rect
C26_Witness ==
  /\ Len(listeners) = 1 /\ Len(writes) = 1
  /\ listeners[1].kind = "resize" /\ listeners[1].corner = "nw"
  /\ listeners[1].currentPosition =
       [x |-> R(50), y |-> R(90), width |-> R(50), height |-> R(10)]
  /\ LastX(1) = R(45) /\ LastY(1) = R(35)
  /\ Written(1) = [x |-> R(45), y |-> R(35), width |-> R(55), height |-> R(65)]
  /\ fieldPositions[listeners[1].fieldId] = Written(1)

\* ------------------------------------------------------------------------
\* Properties of a gesture as a function of the pointer
\* ------------------------------------------------------------------------
\* the rect a gesture gives its field, from the rect at mousedown and the
\* pointer position p alone
RectAt(l, p) ==
  LET xPercent == PointerPercent(p[1], l.rect.left, l.rect.width)
      yPercent == PointerPercent(p[2], l.rect.top, l.rect.height)
  IN  IF l.kind = "drag" THEN DragRect(l.currentPosition, xPercent, yPercent)
      ELSE ResizeRect(l.currentPosition, l.corner, xPercent, yPercent)

\* C27: within one drag or resize gesture the rect written by a mousemove
\* depends only on the field's rect at mousedown and the current pointer
\* position, whatever moves came before, and repeating a move at an unchanged
\* pointer position changes nothing.
C27_PathIndependent ==
  [][ (listeners # <<>> /\ listeners' = listeners /\ nEvents' # nEvents) =>
        /\ DOMAIN writes' = DOMAIN listeners
        /\ \A i \in DOMAIN listeners :
             writes'[i][listeners[i].fieldId] = RectAt(listeners[i], lastPointer')
        /\ fieldPositions'[listeners[Len(listeners)].fieldId] =
             RectAt(listeners[Len(listeners)], lastPointer')
        /\ (lastPointer' = lastPointer /\ Len(writes) = Len(listeners)) =>
             (fieldPositions' = fieldPositions /\ writes' = writes) ]_vars

\* a drag that started on the default rect has the pointer at 45%, 35% of the
\* image, after however many moves, and the field is at that position
C27_Witness ==
  /\ Len(listeners) = 1 /\ Len(writes) = 1
  /\ listeners[1].kind = "drag"
  /\ listeners[1].currentPosition = DefaultPosition
  /\ nEvents >= 3
  /\ LastX(1) = R(45) /\ LastY(1) = R(35)
  /\ fieldPositions[listeners[1].fieldId] =
       [x |-> R(45), y |-> R(35), width |-> R(50), height |-> R(10)]

\* ------------------------------------------------------------------------
\* Properties of the ids of the builder's fields
\* ------------------------------------------------------------------------
\* C28: after any sequence of addField and removeField calls, at any timing,
\* the fields of the builder have pairwise distinct ids, so no two fields share
\* one position entry.
C28_DistinctIds ==
  \A i, j \in DOMAIN fields : i # j => fields[i] # fields[j]

InvariantRects ==
  { r \in [x : {R(0), R(25), R(95)}, y : {R(0), R(25), R(97)},
           width : {R(5), R(50), R(100)}, height : {R(3), R(10), R(100)}] :
      ValidRect(r) }

\* the rectangle left, top, width, height lies in [x0, x0 + w] x [y0, y0 + h]
RectInside(rect, x0, y0, w, h) ==
  LET left == parseFloat(rect.left)
      top == parseFloat(rect.top)
  IN  /\ Le(x0, left) /\ Le(Add(left, parseFloat(rect.width)), Add(x0, w))
      /\ Le(y0, top) /\ Le(Add(top, parseFloat(rect.height)), Add(y0, h))

\* C30: for every rect that satisfies the NormalizedRect invariant and every
\* strictly positive container and image, the on-screen rectangle of the field
\* in the editor and in the preview lies inside the displayed image rectangle
\* [offsetX, offsetX + displayWidth] x [offsetY, offsetY + displayHeight], and
\* so inside the container.
C30_InsideDisplayedImage ==
  PositiveExtents =>
    LET d == displayDimensions
        img == [width |-> lastLayout[1].imageWidth,
                height |-> lastLayout[1].imageHeight]
    IN  \A r \in InvariantRects \cup { TemplatePositions[f] : f \in PositionedFields } :
          \A rect \in { ScreenRect(FieldOverlay(r, FALSE, d.width, d.height, d.offsetX,
                                               d.offsetY, canvasState.scale,
                                               R(img.width), R(img.height))),
                        ScreenRect(PreviewOverlay(r, d, img)) } :
            /\ RectInside(rect, d.offsetX, d.offsetY, d.width, d.height)
            /\ RectInside(rect, R(0), R(0), R(lastLayout[1].containerWidth),
                      R(lastLayout[1].containerHeight))

\* in the pillarboxed 400x800 image the mounted canvas shows field 2, and a
\* rect in the bottom right corner of the image ends on the image's edges
C30_Witness ==
  /\ PositiveExtents
  /\ LayoutOf(1000, 500, 400, 800)
  /\ displayDimensions = Display(R(250), R(500), R(375), R(0))
  /\ 2 \in MountedOverlays
  /\ ScreenRect(EditorOverlay(2)) =
       [left |-> Px(Norm(875, 2)), top |-> Px(R(125)),
        width |-> Px(R(125)), height |-> Px(R(50))]
  /\ ScreenRect(PreviewOverlay([x |-> R(95), y |-> R(97), width |-> R(5), height |-> R(3)],
                               displayDimensions, imageDimensions)) =
       [left |-> Px(Norm(1225, 2)), top |-> Px(R(485)),
        width |-> Px(Norm(25, 2)), height |-> Px(R(15))]
====
